---------------------------- MODULE Spec2Model ----------------------------
(***************************************************************************)
(* Model of devbysina/crimp-project: the CRimp scorer (src/src/crimp.py)   *)
(* and the Cycle Ratio baseline engine (src/src/baselines.py).             *)
(*                                                                         *)
(* Graphs are networkx graphs: a node enumeration order (G.nodes()), an    *)
(* edge set, and a directed flag.  G.neighbors(i) enumerates the nodes     *)
(* adjacent to i in the order they were attached, taken here to be the     *)
(* node enumeration order.                                                 *)
(*                                                                         *)
(* Scores are Python floats (IEEE-754 binary64).  They are modelled        *)
(* bit-exactly, as fixed-point numbers with round-to-nearest-even to 53    *)
(* significant bits after every division and addition, so that the order   *)
(* in which terms are summed shows in the result as it does in Python.     *)
(***************************************************************************)
EXTENDS Integers, Sequences, FiniteSets, TLC

(***************************************************************************)
(* Bounds of the model.                                                    *)
(***************************************************************************)
MaxNode == 4

NodeIds == 1..MaxNode

(***************************************************************************)
(* Python float arithmetic.                                                *)
(*                                                                         *)
(* A non-negative float is a tuple of NLimbs limbs, least significant      *)
(* first, each in 0..Base-1; its value is                                  *)
(*     (SUM_k limb[k] * Base^(k-1)) / 2^FracBits.                          *)
(* With FracBits = 60 every binary64 value in [2^-7, 2^15) is represented  *)
(* exactly, which covers every quotient c_ij/c_jj with c_jj <= 128 and     *)
(* every score of the graphs considered.                                   *)
(***************************************************************************)
FloatFormat == [mant |-> 53, limbBits |-> 15, limbs |-> 5]

MantBits == FloatFormat.mant

LimbBits == FloatFormat.limbBits

Base == 2^LimbBits

NLimbs == FloatFormat.limbs

FracBits == LimbBits * (NLimbs - 1)

RECURSIVE Log2(_)
Log2(x) == IF x <= 1 THEN 0 ELSE 1 + Log2(x \div 2)

FZero == <<0, 0, 0, 0, 0>>

\* float(n) for a small non-negative int n (exact).
IntToFloat(n) == [FZero EXCEPT ![NLimbs] = n]

\* Index of the most significant non-zero limb (0 when the value is 0).
RECURSIVE TopLimb(_, _)
TopLimb(x, k) == IF k = 0 THEN 0 ELSE IF x[k] # 0 THEN k ELSE TopLimb(x, k - 1)

\* Position of the most significant set bit (bit 0 is the lowest of limb 1).
MsbPos(x) ==
    LET t == TopLimb(x, NLimbs) IN LimbBits * (t - 1) + Log2(x[t])

\* x + c * Base^(k-1) by carry propagation, without rounding.
RECURSIVE AddCarry(_, _, _)
AddCarry(x, k, c) ==
    IF c = 0 \/ k > NLimbs THEN x
    ELSE LET s == x[k] + c
         IN AddCarry([x EXCEPT ![k] = s % Base], k + 1, s \div Base)

\* Exact sum of two fixed-point values.
RECURSIVE AddLimbs(_, _, _, _)
AddLimbs(x, y, k, c) ==
    IF k > NLimbs THEN x
    ELSE LET s == x[k] + y[k] + c
         IN AddLimbs([x EXCEPT ![k] = s % Base], y, k + 1, s \div Base)

AddExact(x, y) == AddLimbs(x, y, 1, 0)

\* Round a fixed-point value to MantBits significant bits, ties to even;
\* sticky says that the true value has further non-zero bits below the
\* fixed-point resolution.
RoundNearestEven(x, sticky) ==
    IF TopLimb(x, NLimbs) = 0 THEN x
    ELSE
    LET q == MsbPos(x) - (MantBits - 1)
    IN  IF q <= 0 THEN x
        ELSE
        LET unit == 2^q
            half == 2^(q - 1)
            r    == x[1] % unit
            odd  == IF q < LimbBits THEN (x[1] \div unit) % 2 = 1
                                    ELSE x[2] % 2 = 1
            up   == \/ r > half
                    \/ r = half /\ (sticky \/ odd)
            down == [x EXCEPT ![1] = x[1] - r]
        IN  IF up THEN AddCarry(down, 1, unit) ELSE down

\* Python's  x + y  on floats.
FAdd(x, y) == RoundNearestEven(AddExact(x, y), FALSE)

\* Long division of the fixed-point value x by the int d, limb by limb from
\* the top; returns the quotient limbs and the final remainder.
RECURSIVE DivLimbs(_, _, _, _)
DivLimbs(x, d, k, rem) ==
    IF k = 0 THEN [q |-> x, r |-> rem]
    ELSE LET cur == rem * Base + x[k]
         IN DivLimbs([x EXCEPT ![k] = cur \div d], d, k - 1, cur % d)

\* Python's  n / d  (true division) on ints 0 <= n, 0 < d.
FDiv(n, d) ==
    LET res == DivLimbs(IntToFloat(n), d, NLimbs, 0)
    IN  RoundNearestEven(res.q, res.r # 0)

(***************************************************************************)
(* The graph (networkx.Graph / networkx.DiGraph as the code uses it).      *)
(***************************************************************************)
Range(s) == {s[k] : k \in 1..Len(s)}

\* Python's sorted() on a set of ints.
RECURSIVE SortedTuple(_)
SortedTuple(S) ==
    IF S = {} THEN <<>>
    ELSE LET m == CHOOSE x \in S : \A y \in S : x <= y
         IN <<m>> \o SortedTuple(S \ {m})

\* Python's tuple comparison  a < b.
RECURSIVE TupleLessFrom(_, _, _)
TupleLessFrom(a, b, k) ==
    IF k > Len(a) THEN k <= Len(b)
    ELSE IF k > Len(b) THEN FALSE
    ELSE IF a[k] # b[k] THEN a[k] < b[k]
    ELSE TupleLessFrom(a, b, k + 1)

TupleLess(a, b) == TupleLessFrom(a, b, 1)

\* sorted(cycles, key=lambda s: tuple(sorted(s)))
RECURSIVE SortCycles(_)
SortCycles(S) ==
    IF S = {} THEN <<>>
    ELSE LET m == CHOOSE s \in S :
                    \A t \in S \ {s} : TupleLess(SortedTuple(s), SortedTuple(t))
         IN <<m>> \o SortCycles(S \ {m})

\* All 2-element subsets of S (the possible undirected edges, no self-loops).
PairsOf(S) == {{a, b} : a \in S, b \in S} \ {{a} : a \in S}

\* All enumeration orders of a finite set.
RECURSIVE Perms(_)
Perms(S) ==
    IF S = {} THEN {<<>>}
    ELSE UNION {{<<x>> \o p : p \in Perms(S \ {x})} : x \in S}

\* G.nodes(): the nodes in enumeration order.
NodeSeq(G) == G.nodes

NodeSet(G) == Range(G.nodes)

\* G.has_edge(u, v)
HasEdge(G, u, v) == {u, v} \in G.edges

\* list(G.neighbors(i)): the adjacent nodes, in enumeration order.
Neighbors(G, i) == SelectSeq(G.nodes, LAMBDA j : j # i /\ {i, j} \in G.edges)

NeighborSet(G, i) == Range(Neighbors(G, i))

\* G.degree(i)
Degree(G, i) == Len(Neighbors(G, i))

IsDirectedNever(G) == FALSE

\* G.is_directed()
IsDirected(G) == G.directed

\* dict.get(k, default)
DictGet(d, k, default) == IF k \in DOMAIN d THEN d[k] ELSE default

\* _pair(u, v)
Pair(u, v) == IF u < v THEN <<u, v>> ELSE <<v, u>>

(***************************************************************************)
(* crimp.py                                                                *)
(***************************************************************************)
\* find_chordless_triangles: the set built by the loops, then sorted.
TriangleSet(G) ==
    UNION {
      UNION {
        {{u, v, w} : w \in {x \in NeighborSet(G, u) \cap NeighborSet(G, v) : ~(x <= v)}}
        : v \in {y \in NeighborSet(G, u) : ~(y <= u)}}
      : u \in NodeSet(G)}

find_chordless_triangles(G) == SortCycles(TriangleSet(G))

SquaresOfPairNoChordTest(G, i, j) ==
    LET u == G.nodes[i]
        v == G.nodes[j]
        common == NeighborSet(G, u) \cap NeighborSet(G, v)
        srt == SortedTuple(common)
    IN  IF HasEdge(G, u, v) THEN {}
        ELSE IF Cardinality(common) < 2 THEN {}
        ELSE {{u, v, srt[x], srt[y]} :
                <<x, y>> \in {p \in (1..Len(srt)) \X (1..Len(srt)) : p[1] < p[2]}}

\* The candidate squares of one pair of positions i < j of the node list.
SquaresOfPair(G, i, j) ==
    LET u == G.nodes[i]
        v == G.nodes[j]
        common == NeighborSet(G, u) \cap NeighborSet(G, v)
        srt == SortedTuple(common)
    IN  IF HasEdge(G, u, v) THEN {}
        ELSE IF Cardinality(common) < 2 THEN {}
        ELSE {{u, v, srt[x], srt[y]} :
                <<x, y>> \in {p \in (1..Len(srt)) \X (1..Len(srt)) :
                                /\ p[1] < p[2]
                                /\ srt[p[1]] # srt[p[2]]
                                /\ ~HasEdge(G, srt[p[1]], srt[p[2]])}}

SquareSet(G) ==
    UNION {SquaresOfPair(G, p[1], p[2]) :
             p \in {q \in (1..Len(G.nodes)) \X (1..Len(G.nodes)) : q[1] < q[2]}}

find_chordless_4cycles(G) == SortCycles(SquareSet(G))

\* build_cycle_counts: c_ii and c_ij of a list of cycles.
CountNode(cycles, i) == Cardinality({k \in 1..Len(cycles) : i \in cycles[k]})

CountPair(cycles, u, v) ==
    Cardinality({k \in 1..Len(cycles) : u \in cycles[k] /\ v \in cycles[k]})

build_c_ii(cycles) ==
    [i \in UNION Range(cycles) |-> CountNode(cycles, i)]

build_c_ij(cycles) ==
    [p \in {Pair(u, v) : u, v \in UNION Range(cycles)}
            \cap {q \in (UNION Range(cycles)) \X (UNION Range(cycles)) :
                    q[1] < q[2] /\ CountPair(cycles, q[1], q[2]) > 0}
       |-> CountPair(cycles, p[1], p[2])]

CycleNeighborsInverted(G, cij, i) ==
    Len(SelectSeq(Neighbors(G, i), LAMBDA j : DictGet(cij, Pair(i, j), 0) = 0))

\* compute_k_t
CycleNeighbors(G, cij, i) ==
    Len(SelectSeq(Neighbors(G, i), LAMBDA j : DictGet(cij, Pair(i, j), 0) > 0))

compute_k_t(G, cij) ==
    [i \in NodeSet(G) |-> Degree(G, i) - CycleNeighbors(G, cij, i)]

\* The loop over G.neighbors(i) of compute_crimp_scores, from position k on.
RECURSIVE NeighborSum(_, _, _, _, _, _)
NeighborSum(nbrs, k, i, cii, cij, s) ==
    IF k > Len(nbrs) THEN s
    ELSE LET j == nbrs[k]
             c == DictGet(cij, Pair(i, j), 0)
             cjj == DictGet(cii, j, 0)
         IN  IF c <= 0 THEN NeighborSum(nbrs, k + 1, i, cii, cij, s)
             ELSE IF cjj > 0
             THEN NeighborSum(nbrs, k + 1, i, cii, cij, FAdd(s, FDiv(c, cjj)))
             ELSE NeighborSum(nbrs, k + 1, i, cii, cij, s)

SelfTermAlways(include_self) == FAdd(FZero, IntToFloat(1))

\* The self term: s = 0.0, then s += 1.0 when include_self.
SelfTerm(include_self) ==
    IF include_self THEN FAdd(FZero, IntToFloat(1)) ELSE FZero

AcyclicScoreZero(G, kt, i) == FZero

\* The score of a node that is in no enumerated cycle.
AcyclicScore(G, kt, i) == IntToFloat(DictGet(kt, i, 0))

NodeScore(G, cii, cij, kt, include_self, i) ==
    IF DictGet(cii, i, 0) = 0 THEN AcyclicScore(G, kt, i)
    ELSE FAdd(NeighborSum(Neighbors(G, i), 1, i, cii, cij, SelfTerm(include_self)),
              IntToFloat(DictGet(kt, i, 0)))

compute_crimp_scores(G, cii, cij, kt, include_self) ==
    [i \in NodeSet(G) |-> NodeScore(G, cii, cij, kt, include_self, i)]

(***************************************************************************)
(* baselines.py: CycleRatioEngine                                          *)
(***************************************************************************)
\* G.remove_node(v): v and its edges leave the graph.
RemoveNode(G, v) ==
    [G EXCEPT !.nodes = SelectSeq(G.nodes, LAMBDA n : n # v),
              !.edges = {e \in G.edges : v \notin e}]

IterGraphsNoCopy(G, v) == [orig |-> RemoveNode(G, v), temp |-> RemoveNode(G, v)]

\* G_temp = self.graph.copy(); G_temp.remove_node(node): the removal acts on
\* the copy, self.graph keeps its nodes and edges.
IterGraphs(G, v) == [orig |-> G, temp |-> RemoveNode(G, v)]

\* Breadth-first distance from the frontier to target (-1: unreachable).
RECURSIVE BfsDist(_, _, _, _, _)
BfsDist(G, frontier, seen, target, d) ==
    IF target \in frontier THEN d
    ELSE IF frontier = {} THEN -1
    ELSE LET nxt == (UNION {NeighborSet(G, x) : x \in frontier}) \ seen
         IN BfsDist(G, nxt, seen \cup nxt, target, d + 1)

\* The walks of exactly k edges from x to target.
RECURSIVE WalksTo(_, _, _, _)
WalksTo(G, x, target, k) ==
    IF k = 0 THEN (IF x = target THEN {<<x>>} ELSE {})
    ELSE UNION {{<<x>> \o p : p \in WalksTo(G, y, target, k - 1)} :
                  y \in NeighborSet(G, x)}

\* list(nx.all_shortest_paths(G, source, target)); NetworkXNoPath gives no
\* path at all (the pair is skipped).
AllShortestPaths(G, source, target) ==
    LET d == BfsDist(G, {source}, {source}, target, 0)
    IN  IF d < 0 THEN {} ELSE WalksTo(G, source, target, d)

\* The cycles one pair of neighbors (positions a < b) of node adds.  A cycle
\* tuple(sorted(...)) is identified with the set of its nodes.
PairCycles(G, Gt, node, u, v) ==
    IF HasEdge(G, u, v) THEN {{node, u, v}}
    ELSE {{node} \cup Range(p) : p \in AllShortestPaths(Gt, u, v)}

\* The cycles the iteration for node adds to self.cycles.
NodeCycles(G, node) ==
    LET neighbors == Neighbors(G, node)
        Gt == IterGraphs(G, node).temp
    IN  IF Len(neighbors) < 2 THEN {}
        ELSE UNION {PairCycles(G, Gt, node, neighbors[p[1]], neighbors[p[2]]) :
                      p \in {q \in (1..Len(neighbors)) \X (1..Len(neighbors)) :
                               q[1] < q[2]}}

\* The for loop over self.graph.nodes() from position k on.
RECURSIVE DiscoverFrom(_, _, _)
DiscoverFrom(G, k, acc) ==
    IF k > Len(G.nodes) THEN acc
    ELSE DiscoverFrom(G, k + 1, acc \cup NodeCycles(G, G.nodes[k]))

\* The cycle_map of one node under the order in which `for cyc in
\* self.cycles` visits the set: the cycles containing n, in that order.
CycleMapOf(iter, n) == SelectSeq(iter, LAMBDA c : n \in c)

\* The keys of shared_counts in insertion order: the nodes of the cycles of
\* cycle_map[i], each cycle's nodes ascending, first occurrence kept.
RECURSIVE AppendNew(_, _, _)
AppendNew(keys, t, k) ==
    IF k > Len(t) THEN keys
    ELSE AppendNew(IF t[k] \in Range(keys) THEN keys ELSE Append(keys, t[k]), t, k + 1)

RECURSIVE SharedKeys(_, _, _)
SharedKeys(cm, k, keys) ==
    IF k > Len(cm) THEN keys
    ELSE SharedKeys(cm, k + 1, AppendNew(keys, SortedTuple(cm[k]), 1))

\* shared_counts[n]
SharedCount(cm, n) == Cardinality({k \in 1..Len(cm) : n \in cm[k]})

SkipSelfNever(i, j) == FALSE

\* if j == i: continue
SkipSelf(i, j) == j = i

\* The loop over shared_counts.items() from position k on.
RECURSIVE RatioSum(_, _, _, _, _, _)
RatioSum(keys, k, i, cm, iter, score) ==
    IF k > Len(keys) THEN score
    ELSE LET j == keys[k]
             cjj == Len(CycleMapOf(iter, j))
         IN  IF SkipSelf(i, j) THEN RatioSum(keys, k + 1, i, cm, iter, score)
             ELSE IF cjj > 0
             THEN RatioSum(keys, k + 1, i, cm, iter,
                           FAdd(score, FDiv(SharedCount(cm, j), cjj)))
             ELSE RatioSum(keys, k + 1, i, cm, iter, score)

NoCycleScoreDegree(G, i) == IntToFloat(Degree(G, i))

\* The score of a node with c_ii == 0.
NoCycleScore(G, i) == FZero

\* self.CycleRatio[i] for one node i of the graph.
RatioOf(G, iter, i) ==
    LET cm == CycleMapOf(iter, i)
    IN  IF Len(cm) = 0 THEN NoCycleScore(G, i)
        ELSE RatioSum(SharedKeys(cm, 1, <<>>), 1, i, cm, iter, FZero)

\* The orders in which a Python set may be iterated.  The language leaves
\* the order open: every order of a set of at most MaxPermuted elements is
\* taken, and for a larger set the orders sorted by the cycles' tuples under
\* each ranking of NodeOrders.
MaxPermuted == 4

Rank(o, n) == CHOOSE k \in 1..Len(o) : o[k] = n

\* The cycles of the <<key, cycle>> pairs P in ascending order of the keys.
RECURSIVE SortByKey(_)
SortByKey(P) ==
    IF P = {} THEN <<>>
    ELSE LET m == CHOOSE p \in P : \A q \in P : ~TupleLess(q[1], p[1])
         IN <<m[2]>> \o SortByKey(P \ {m})

SortRanked(S, o) ==
    SortByKey({<<SortedTuple({Rank(o, n) : n \in c}), c>> : c \in S})

(***************************************************************************)
(* State.                                                                  *)
(***************************************************************************)
VARIABLES
    graph,      \* the caller's graph G (the engine's self.graph)
    pc,         \* position of the crimp(G) call
    cycles3,    \* crimp: cycles3
    cycles4,    \* crimp: cycles4
    c_ii,       \* crimp: c_ii
    c_ij,       \* crimp: c_ij
    k_t,        \* crimp: k_t
    r_imp,      \* crimp: r_imp (include_self=True)
    direct,     \* results of direct compute_crimp_scores calls, by include_self
    epc,        \* the engine: idle, loop (in run()), done (run() returned), KeyError
    ecycles,    \* self.cycles
    CycleRatio, \* self.CycleRatio
    idx,        \* position of the for loop over self.graph.nodes()
    node,       \* the loop variable node (0 before the first iteration)
    gtemp,      \* G_temp
    runs,       \* number of run() calls started
    changes,    \* number of changes the caller made to the graph
    g0          \* history: the graph as it was when run() was called

crimpVars == <<pc, cycles3, cycles4, c_ii, c_ij, k_t, r_imp, direct>>

engineVars == <<epc, ecycles, CycleRatio, idx, node, gtemp, runs, changes, g0>>

vars == <<graph, crimpVars, engineVars>>

\* The enumeration orders the initial graphs are drawn from: the ascending
\* order, its rotations, and their reversals, so that every node comes first
\* in some order and every two nodes come in both orders.
Rotate(s, r) == [k \in 1..Len(s) |-> s[((k - 1 + r) % Len(s)) + 1]]

Reverse(s) == [k \in 1..Len(s) |-> s[Len(s) + 1 - k]]

NodeOrders ==
    LET asc == SortedTuple(NodeIds)
    IN  {Rotate(asc, r) : r \in 0..(MaxNode - 1)}
          \cup {Reverse(Rotate(asc, r)) : r \in 0..(MaxNode - 1)}

IterOrders(S) ==
    IF Cardinality(S) <= MaxPermuted THEN Perms(S)
    ELSE {SortRanked(S, o) : o \in NodeOrders}

Graphs(directedness) ==
    {[nodes |-> o, edges |-> E, directed |-> d] :
        o \in NodeOrders, E \in SUBSET PairsOf(NodeIds), d \in directedness}

NoGraph == [nodes |-> <<>>, edges |-> {}, directed |-> FALSE]

InitCrimp ==
    /\ pc = "start"
    /\ cycles3 = <<>>
    /\ cycles4 = <<>>
    /\ c_ii = <<>>
    /\ c_ij = <<>>
    /\ k_t = <<>>
    /\ r_imp = <<>>
    /\ direct = <<>>

\* CycleRatioEngine.__init__
InitEngine ==
    /\ epc = "idle"
    /\ ecycles = {}
    /\ CycleRatio = <<>>
    /\ idx = 0
    /\ node = 0
    /\ gtemp = NoGraph
    /\ runs = 0
    /\ changes = 0
    /\ g0 = NoGraph

Init ==
    /\ graph \in Graphs(BOOLEAN)
    /\ InitCrimp
    /\ InitEngine

(***************************************************************************)
(* crimp(G), statement by statement.                                       *)
(***************************************************************************)
\* if G.is_directed(): raise ValueError
Validate ==
    /\ pc = "start"
    /\ pc' = IF IsDirected(graph) THEN "ValueError" ELSE "triangles"
    /\ UNCHANGED <<graph, cycles3, cycles4, c_ii, c_ij, k_t, r_imp, direct, engineVars>>

FindTriangles ==
    /\ pc = "triangles"
    /\ cycles3' = find_chordless_triangles(graph)
    /\ pc' = "squares"
    /\ UNCHANGED <<graph, cycles4, c_ii, c_ij, k_t, r_imp, direct, engineVars>>

FindSquares ==
    /\ pc = "squares"
    /\ cycles4' = find_chordless_4cycles(graph)
    /\ pc' = "counts"
    /\ UNCHANGED <<graph, cycles3, c_ii, c_ij, k_t, r_imp, direct, engineVars>>

BuildCounts ==
    /\ pc = "counts"
    /\ c_ii' = build_c_ii(cycles3 \o cycles4)
    /\ c_ij' = build_c_ij(cycles3 \o cycles4)
    /\ pc' = "k_t"
    /\ UNCHANGED <<graph, cycles3, cycles4, k_t, r_imp, direct, engineVars>>

ComputeKt ==
    /\ pc = "k_t"
    /\ k_t' = compute_k_t(graph, c_ij)
    /\ pc' = "scores"
    /\ UNCHANGED <<graph, cycles3, cycles4, c_ii, c_ij, r_imp, direct, engineVars>>

ComputeScores ==
    /\ pc = "scores"
    /\ r_imp' = compute_crimp_scores(graph, c_ii, c_ij, k_t, TRUE)
    /\ pc' = "done"
    /\ UNCHANGED <<graph, cycles3, cycles4, c_ii, c_ij, k_t, direct, engineVars>>

\* A direct call compute_crimp_scores(G, c_ii, c_ij, k_t, include_self) on
\* the counts crimp returned.
DirectScores ==
    /\ pc = "done"
    /\ \E include_self \in BOOLEAN :
          /\ include_self \notin DOMAIN direct
          /\ direct' = [b \in DOMAIN direct \cup {include_self} |->
                          IF b = include_self
                          THEN compute_crimp_scores(graph, c_ii, c_ij, k_t, include_self)
                          ELSE direct[b]]
    /\ UNCHANGED <<graph, pc, cycles3, cycles4, c_ii, c_ij, k_t, r_imp, engineVars>>

Next ==
    \/ Validate
    \/ FindTriangles
    \/ FindSquares
    \/ BuildCounts
    \/ ComputeKt
    \/ ComputeScores
    \/ DirectScores

Spec == Init /\ [][Next]_vars

(***************************************************************************)
(* CycleRatioEngine.run(), iteration by iteration.                         *)
(***************************************************************************)
MaxRuns == 2

MaxChanges == 1

\* run() is called: the loop over self.graph.nodes() starts.
RunStart ==
    /\ epc \in {"idle", "done"}
    /\ runs < MaxRuns
    /\ runs' = runs + 1
    /\ g0' = graph
    /\ idx' = 1
    /\ node' = 0
    /\ epc' = "loop"
    /\ UNCHANGED <<graph, crimpVars, ecycles, CycleRatio, gtemp, changes>>

\* One iteration of the discovery loop (lines 18-38).
RunIter ==
    /\ epc = "loop"
    /\ idx <= Len(NodeSeq(graph))
    /\ LET v == NodeSeq(graph)[idx]
           neighbors == Neighbors(graph, v)
           gs == IterGraphs(graph, v)
       IN  /\ node' = v
           /\ IF Len(neighbors) < 2
              THEN UNCHANGED <<graph, gtemp, ecycles>>
              ELSE /\ graph' = gs.orig
                   /\ gtemp' = gs.temp
                   /\ ecycles' = ecycles \cup
                        UNION {PairCycles(gs.orig, gs.temp, v,
                                          neighbors[p[1]], neighbors[p[2]]) :
                                 p \in {q \in (1..Len(neighbors)) \X (1..Len(neighbors)) :
                                          q[1] < q[2]}}
    /\ idx' = idx + 1
    /\ UNCHANGED <<crimpVars, epc, CycleRatio, runs, changes, g0>>

\* The scoring part (lines 40-66): cycle_map is filled in the order in which
\* the set self.cycles is iterated; a cycle holding a node that is not in
\* the graph raises KeyError at cycle_map[n].
RunScore ==
    /\ epc = "loop"
    /\ idx > Len(NodeSeq(graph))
    /\ IF \E c \in ecycles : ~(c \subseteq NodeSet(graph))
       THEN /\ epc' = "KeyError"
            /\ UNCHANGED CycleRatio
       ELSE /\ epc' = "done"
            /\ \E iter \in IterOrders(ecycles) :
                  CycleRatio' =
                     [n \in DOMAIN CycleRatio \cup NodeSet(graph) |->
                        IF n \in NodeSet(graph) THEN RatioOf(graph, iter, n)
                        ELSE CycleRatio[n]]
    /\ UNCHANGED <<graph, crimpVars, ecycles, idx, node, gtemp, runs, changes, g0>>

InitRun ==
    /\ graph \in Graphs({FALSE})
    /\ InitCrimp
    /\ InitEngine

\* One run of a new engine: rank_cycle_ratio_base(G).
NextEngine ==
    \/ RunStart /\ runs = 0
    \/ RunIter
    \/ RunScore

SpecEngine == InitRun /\ [][NextEngine]_vars

(***************************************************************************)
(* The caller changes the graph the engine holds between two run() calls.  *)
(***************************************************************************)
ChangeGraph ==
    /\ epc \in {"idle", "done"}
    /\ changes < MaxChanges
    /\ changes' = changes + 1
    /\ \/ \E e \in PairsOf(NodeSet(graph)) \ graph.edges :
             graph' = [graph EXCEPT !.edges = @ \cup {e}]
       \/ \E e \in graph.edges :
             graph' = [graph EXCEPT !.edges = @ \ {e}]
       \/ \E v \in NodeSet(graph) :
             graph' = RemoveNode(graph, v)
       \/ \E v \in NodeIds \ NodeSet(graph) :
             graph' = [graph EXCEPT !.nodes = Append(@, v)]
    /\ epc' = "idle"
    /\ UNCHANGED <<crimpVars, ecycles, CycleRatio, idx, node, gtemp, runs, g0>>

InitReuse ==
    /\ graph \in {[nodes |-> SortedTuple(S), edges |-> E, directed |-> FALSE] :
                     S \in {NodeIds, NodeIds \ {MaxNode}}, E \in SUBSET PairsOf(NodeIds)}
    /\ graph.edges \subseteq PairsOf(NodeSet(graph))
    /\ InitCrimp
    /\ InitEngine

NextReuse ==
    \/ RunStart
    \/ RunIter
    \/ RunScore
    \/ ChangeGraph

SpecReuse == InitReuse /\ [][NextReuse]_vars

(***************************************************************************)
(* Vocabulary of the claims, stated on the graph alone.                    *)
(***************************************************************************)
\* The number of edges at node i.
EdgeCount(G, i) == Cardinality({e \in G.edges : i \in e})

\* S is a chordless square: four distinct nodes u, v, a, b with both
\* diagonals u-v and a-b absent and a, b each adjacent to both u and v.
IsSquare(G, S) ==
    /\ Cardinality(S) = 4
    /\ \E u \in S : \E v \in S \ {u} : \E a \in S \ {u, v} : \E b \in S \ {u, v, a} :
          /\ {u, v} \notin G.edges
          /\ {a, b} \notin G.edges
          /\ {{a, u}, {a, v}, {b, u}, {b, v}} \subseteq G.edges

\* S is a 4-cycle with at least one diagonal present.
IsChordedSquare(G, S) ==
    /\ Cardinality(S) = 4
    /\ \E u \in S : \E v \in S \ {u} : \E a \in S \ {u, v} : \E b \in S \ {u, v, a} :
          /\ {{a, u}, {a, v}, {b, u}, {b, v}} \subseteq G.edges
          /\ ({u, v} \in G.edges \/ {a, b} \in G.edges)

IsTriangle(G, T) ==
    /\ Cardinality(T) = 3
    /\ \A x \in T : \A y \in T \ {x} : {x, y} \in G.edges

\* The graph is one triangle and nothing else (other nodes isolated).
IsSingleTriangle(G, T) ==
    /\ Cardinality(T) = 3
    /\ G.edges = PairsOf(T)

SquaresReturned == pc \in {"counts", "k_t", "scores", "done"}

One == IntToFloat(1)

\* x <= y on floats.
RECURSIVE LeqFrom(_, _, _)
LeqFrom(x, y, k) ==
    IF k = 0 THEN TRUE
    ELSE IF x[k] # y[k] THEN x[k] < y[k]
    ELSE LeqFrom(x, y, k - 1)

FLeq(x, y) == LeqFrom(x, y, NLimbs)

\* Both settings of include_self have been computed.
BothDirect == DOMAIN direct = BOOLEAN

\* The float of value n * 2^-52 (n small).
Eps52(n) == AddCarry(FZero, 1, n * 2^(FracBits - 52))

\* |x - y| <= tol on floats.
Within(x, y, tol) == FLeq(x, AddExact(y, tol)) /\ FLeq(y, AddExact(x, tol))

(***************************************************************************)
(* C1: find_chordless_4cycles(G) returns exactly the 4-node sets           *)
(* {u,v,a,b} with u-v and a-b absent and a, b adjacent to both u and v:    *)
(* none with a diagonal present, none missing, each exactly once.          *)
(***************************************************************************)
C1_SquaresExact ==
    SquaresReturned =>
       /\ Range(cycles4) = {S \in SUBSET NodeSet(graph) : IsSquare(graph, S)}
       /\ \A S \in SUBSET NodeSet(graph) :
             IsChordedSquare(graph, S) => S \notin Range(cycles4)
       /\ \A k \in 1..Len(cycles4) : \A l \in 1..Len(cycles4) :
             k # l => cycles4[k] # cycles4[l]

\* A square was returned for one graph and, for another, a chorded 4-cycle
\* was left out.
C1_Witness ==
    /\ SquaresReturned
    /\ \/ Len(cycles4) = 1 /\ IsSquare(graph, cycles4[1])
       \/ /\ cycles4 = <<>>
          /\ \E S \in SUBSET NodeSet(graph) : IsChordedSquare(graph, S)

(***************************************************************************)
(* C2: crimp(G) on a directed graph raises ValueError before any           *)
(* enumeration, counting or scoring step, and produces no partial result;  *)
(* on an undirected graph the error never occurs.                          *)
(***************************************************************************)
C2_DirectedRejected ==
    /\ graph.directed =>
          /\ pc \in {"start", "ValueError"}
          /\ cycles3 = <<>> /\ cycles4 = <<>>
          /\ c_ii = <<>> /\ c_ij = <<>> /\ k_t = <<>> /\ r_imp = <<>>
    /\ ~graph.directed => pc # "ValueError"

C2_Witness == graph.directed /\ graph.edges # {} /\ pc = "ValueError"

(***************************************************************************)
(* C3: every node in no enumerated cycle (c_ii = 0) scores exactly k_t,    *)
(* and its k_t is its degree; for a triangle-free and square-free graph    *)
(* cycles3 and cycles4 are empty and every score is the degree.            *)
(***************************************************************************)
C3_AcyclicScoreIsDegree ==
    pc = "done" =>
       /\ \A i \in NodeSet(graph) :
             DictGet(c_ii, i, 0) = 0 =>
                /\ r_imp[i] = IntToFloat(k_t[i])
                /\ k_t[i] = EdgeCount(graph, i)
       /\ (/\ \A T \in SUBSET NodeSet(graph) : ~IsTriangle(graph, T)
           /\ \A S \in SUBSET NodeSet(graph) : ~IsSquare(graph, S))
          => /\ cycles3 = <<>>
             /\ cycles4 = <<>>
             /\ \A i \in NodeSet(graph) :
                   r_imp[i] = IntToFloat(EdgeCount(graph, i))

\* A node outside every cycle, with an edge, next to nodes that are in one.
C3_Witness ==
    /\ pc = "done"
    /\ \E i \in NodeSet(graph) :
          /\ DictGet(c_ii, i, 0) = 0
          /\ EdgeCount(graph, i) > 0
          /\ r_imp[i] = IntToFloat(EdgeCount(graph, i))
    /\ \E j \in NodeSet(graph) : DictGet(c_ii, j, 0) > 0

(***************************************************************************)
(* C4 as stated: with fixed c_ii, c_ij, k_t the include_self=True and      *)
(* include_self=False scores differ by exactly 1.0 on every node with      *)
(* c_ii > 0 and are equal where c_ii = 0; each node of a single triangle   *)
(* scores 3.0 with the self term on.                                       *)
(***************************************************************************)
C4_ExactlyOne ==
    BothDirect =>
       /\ \A i \in NodeSet(graph) :
             IF DictGet(c_ii, i, 0) > 0
             THEN direct[TRUE][i] = AddExact(direct[FALSE][i], One)
             ELSE direct[TRUE][i] = direct[FALSE][i]
       /\ \A T \in SUBSET NodeSet(graph) :
             IsSingleTriangle(graph, T) =>
                \A i \in T : direct[TRUE][i] = IntToFloat(3)

(***************************************************************************)
(* C4 amended: the two scores are equal where c_ii = 0 and, where          *)
(* c_ii > 0, differ by 1.0 up to floating-point rounding,                  *)
(* |on - off - 1.0| <= (degree + 1)^2 * 2^-52; each node of a single       *)
(* triangle scores exactly 3.0 with the self term on.                      *)
(***************************************************************************)
C4_OneUpToRounding ==
    BothDirect =>
       /\ \A i \in NodeSet(graph) :
             IF DictGet(c_ii, i, 0) > 0
             THEN Within(direct[TRUE][i], AddExact(direct[FALSE][i], One),
                         Eps52((EdgeCount(graph, i) + 1) * (EdgeCount(graph, i) + 1)))
             ELSE direct[TRUE][i] = direct[FALSE][i]
       /\ \A T \in SUBSET NodeSet(graph) :
             IsSingleTriangle(graph, T) =>
                \A i \in T : direct[TRUE][i] = IntToFloat(3)

\* Both settings were computed on a graph where some node is in a cycle and
\* the two scores are not exactly 1.0 apart.
C4_Witness ==
    /\ BothDirect
    /\ \E i \in NodeSet(graph) :
          /\ DictGet(c_ii, i, 0) > 0
          /\ direct[TRUE][i] # AddExact(direct[FALSE][i], One)
          /\ direct[TRUE][i] # direct[FALSE][i]

(***************************************************************************)
(* C6 as stated: in crimp(G) every node of degree < 2 is in no enumerated  *)
(* cycle (c_ii = 0) and receives the default score 0.0.                    *)
(***************************************************************************)
C6_LowDegreeZero ==
    pc = "done" =>
       \A i \in NodeSet(graph) :
          EdgeCount(graph, i) < 2 =>
             /\ DictGet(c_ii, i, 0) = 0
             /\ r_imp[i] = FZero

(***************************************************************************)
(* C6 amended: in crimp(G) every node of degree < 2 is in no enumerated    *)
(* cycle (c_ii = 0) and scores its degree: 0.0 when isolated, 1.0 when it  *)
(* has one neighbor.                                                       *)
(***************************************************************************)
C6_LowDegreeScoresDegree ==
    pc = "done" =>
       \A i \in NodeSet(graph) :
          EdgeCount(graph, i) < 2 =>
             /\ i \notin UNION (Range(cycles3) \cup Range(cycles4))
             /\ DictGet(c_ii, i, 0) = 0
             /\ r_imp[i] = (IF EdgeCount(graph, i) = 1 THEN One ELSE FZero)

\* A leaf and an isolated node, both scored.
C6_Witness ==
    /\ pc = "done"
    /\ \E i \in NodeSet(graph) : EdgeCount(graph, i) = 1 /\ r_imp[i] = One
    /\ \E i \in NodeSet(graph) : EdgeCount(graph, i) = 0 /\ r_imp[i] = FZero

(***************************************************************************)
(* Vocabulary of the Cycle Ratio claims.                                   *)
(***************************************************************************)
\* The sequences of distinct nodes, by first and last node.
SimpleSeqs == UNION {Perms(S) : S \in SUBSET NodeIds}

SeqsBetween ==
    [u \in NodeIds, w \in NodeIds |->
        {p \in SimpleSeqs : Len(p) >= 1 /\ p[1] = u /\ p[Len(p)] = w}]

\* The simple paths from u to w in G that avoid node v, as node sequences.
PathsAvoiding(G, v, u, w) ==
    {p \in SeqsBetween[u, w] :
        /\ Range(p) \subseteq NodeSet(G) \ {v}
        /\ \A k \in 1..(Len(p) - 1) : {p[k], p[k + 1]} \in G.edges}

ShortestAvoiding(G, v, u, w) ==
    LET paths == PathsAvoiding(G, v, u, w)
    IN  {p \in paths : \A q \in paths : Len(p) <= Len(q)}

\* The cycles the iteration for v is to record on graph G: for every two
\* neighbors u, w of v, the triangle when u-w is an edge of G, and otherwise
\* v with each shortest u-w path of G without v.
CyclesThrough(G, v) ==
    UNION {IF e \in G.edges THEN {{v} \cup e}
           ELSE LET u == CHOOSE x \in e : TRUE
                    w == CHOOSE y \in e \ {u} : TRUE
                IN  {{v} \cup Range(p) : p \in ShortestAvoiding(G, v, u, w)}
           : e \in PairsOf({n \in NodeSet(G) : {v, n} \in G.edges})}

\* The nodes whose iteration has been executed.
Processed == {NodeSeq(g0)[k] : k \in 1..(idx - 1)}

\* Left-to-right float sum of term[j] over the sequence order.
RECURSIVE SumInOrder(_, _, _, _)
SumInOrder(order, k, term, acc) ==
    IF k > Len(order) THEN acc
    ELSE SumInOrder(order, k + 1, term, FAdd(acc, term[order[k]]))

CyclesWith(i) == {c \in ecycles : i \in c}

\* The same nodes and edges, enumerated in ascending order.
Canonical(G) == [G EXCEPT !.nodes = SortedTuple(NodeSet(G))]

\* crimp(G) as one value.
CrimpOf(G) ==
    LET c3 == find_chordless_triangles(G)
        c4 == find_chordless_4cycles(G)
        cii == build_c_ii(c3 \o c4)
        cij == build_c_ij(c3 \o c4)
        kt == compute_k_t(G, cij)
    IN  [cycles3 |-> c3, cycles4 |-> c4, c_ii |-> cii, c_ij |-> cij, k_t |-> kt,
         r_imp |-> compute_crimp_scores(G, cii, cij, kt, TRUE)]

\* run() of a new engine on G, the set of cycles iterated in sorted order.
CycleRatioOf(G) ==
    LET cyc == DiscoverFrom(G, 1, {})
    IN  [n \in NodeSet(G) |-> RatioOf(G, SortCycles(cyc), n)]

(***************************************************************************)
(* C5: rank_cycle_ratio_base gives 0.0 to every node of degree < 2: such a *)
(* node is in no recorded cycle, neither through its own iteration nor as  *)
(* an endpoint or interior node of a path found in another iteration.      *)
(***************************************************************************)
C5_LowDegreeZero ==
    /\ \A c \in ecycles : \A n \in c : EdgeCount(graph, n) >= 2
    /\ epc = "done" =>
          \A i \in NodeSet(graph) :
             EdgeCount(graph, i) < 2 => CycleRatio[i] = FZero

\* A leaf hangs off a node that is in a recorded cycle, and has its 0.0.
C5_Witness ==
    /\ epc = "done"
    /\ \E i \in NodeSet(graph) : \E j \in NodeSet(graph) :
          /\ EdgeCount(graph, i) = 1
          /\ {i, j} \in graph.edges
          /\ CyclesWith(j) # {}
          /\ CycleRatio[i] = FZero

(***************************************************************************)
(* C7: both engines are functions of the graph structure alone: a graph    *)
(* and the graph with the same nodes and edges enumerated in another       *)
(* order give identical cycles3, cycles4, c_ii, c_ij, k_t and scores in    *)
(* crimp, and identical recorded cycles and score maps in the Cycle Ratio  *)
(* engine.                                                                 *)
(***************************************************************************)
C7_OrderIndependent ==
    epc = "done" =>
       /\ CrimpOf(graph) = CrimpOf(Canonical(graph))
       /\ ecycles = DiscoverFrom(Canonical(graph), 1, {})
       /\ CycleRatio = CycleRatioOf(Canonical(graph))

(***************************************************************************)
(* C8: the Cycle Ratio score has no self term: a node in no recorded cycle *)
(* scores 0.0, and any other node i scores the sum over the nodes j # i    *)
(* that share a recorded cycle with i, adjacent or not, of                 *)
(* shared[j] / c_jj; every node of a single triangle scores 2.0.           *)
(***************************************************************************)
C8_NoSelfTerm ==
    epc = "done" =>
       /\ \A i \in NodeSet(graph) :
             IF CyclesWith(i) = {} THEN CycleRatio[i] = FZero
             ELSE LET co == (UNION CyclesWith(i)) \ {i}
                      term == [j \in co |->
                                 FDiv(Cardinality(CyclesWith(i) \cap CyclesWith(j)),
                                      Cardinality(CyclesWith(j)))]
                  IN  \E order \in Perms(co) :
                         CycleRatio[i] = SumInOrder(order, 1, term, FZero)
       /\ \A T \in SUBSET NodeSet(graph) :
             IsSingleTriangle(graph, T) =>
                \A i \in T : CycleRatio[i] = IntToFloat(2)

\* A node scored through a node it is not adjacent to.
C8_Witness ==
    /\ epc = "done"
    /\ \E i \in NodeSet(graph) : \E j \in NodeSet(graph) \ {i} :
          /\ {i, j} \notin graph.edges
          /\ CyclesWith(i) \cap CyclesWith(j) # {}
          /\ CycleRatio[i] # FZero

(***************************************************************************)
(* C9: node removal is never cumulative: in the iteration for node v the   *)
(* shortest paths are those of the original graph with exactly v and its   *)
(* edges removed, whatever was processed before, adjacency of two          *)
(* neighbors is that of the original graph, and run() leaves the graph's   *)
(* nodes and edges as they were.                                           *)
(***************************************************************************)
C9_FreshRemoval ==
    epc \in {"loop", "done"} =>
       /\ graph = g0
       /\ (node # 0 /\ EdgeCount(g0, node) >= 2) =>
             /\ NodeSet(gtemp) = NodeSet(g0) \ {node}
             /\ gtemp.edges = {e \in g0.edges : node \notin e}
       /\ ecycles = UNION {CyclesThrough(g0, v) : v \in Processed}

\* A second node of degree >= 2 is being processed after a first one.
C9_Witness ==
    /\ epc = "loop"
    /\ node # 0
    /\ EdgeCount(g0, node) >= 2
    /\ \E v \in Processed \ {node} :
          /\ EdgeCount(g0, v) >= 2
          /\ v \in NodeSet(gtemp)
    /\ \E c \in ecycles : Cardinality(c) = 4

(***************************************************************************)
(* C10: every run() recomputes from scratch: whatever run() calls and      *)
(* changes of the graph came before, a run() completes and returns the     *)
(* score map a new engine returns on the graph's current nodes and edges.  *)
(***************************************************************************)
C10_RecomputesFromScratch ==
    /\ epc # "KeyError"
    /\ epc = "done" =>
          LET cyc == DiscoverFrom(graph, 1, {})
          IN  \E iter \in IterOrders(cyc) :
                 CycleRatio = [n \in NodeSet(graph) |-> RatioOf(graph, iter, n)]
=============================================================================
